---- MODULE Spec2Model ----
(***************************************************************************)
(* Group task approval workflow of                                         *)
(* website/server/controllers/api-v3/tasks/groups.js.                      *)
(*                                                                         *)
(* One group g1 (leader L, manager M, plain member A, outsider X).  The    *)
(* task store holds two linked copies: t1 (of canonical c1), owned by the  *)
(* plain member A or by the manager M, which the commands work on, and t0  *)
(* (of canonical c0, owned by A), whose approval request stays pending.    *)
(* The stores (tasks, users) are the state; every controller handler is    *)
(* one action of Spec, where requests are served one at a time.  In        *)
(* SpecConc two handlers run interleaved at their awaits and their saves   *)
(* land one by one.  SpecAuth evaluates canNotEditTasks on its own.        *)
(* SpecGroup adds the group's canonical tasks (c0..c3, k0), its tasksOrder *)
(* and chat, and the handlers that move, assign and unassign tasks.        *)
(***************************************************************************)
EXTENDS Integers, Sequences, FiniteSets, TLC

\* ------------------------------------------------------------------ bounds
\* number of approval requests (scorings of a task that needs approval)
MaxRequests == 2
\* number of saves the store rejects
MaxFailedSaves == 1
\* number of chat messages of the group
MaxChat == 1
\* largest position a task is moved to
MaxPosition == 4

\* ------------------------------------------------------------------ values
NULL == "null"
NoDate == 0

UserIds == {"L", "M", "A", "X"}          \* documents of the user store
TaskIds == {"t0", "t1"}                  \* linked copies in the task store
Owners == {"A", "M"}                     \* who t1 may be assigned to
\* the :taskId/:userId pairs of the requests; Z resolves to no user and so to
\* no linked copy
Params == {<<"c1", "A">>, <<"c1", "M">>, <<"c1", "Z">>}
GroupIds == {"g1"}                       \* :groupId values
Directions == {"up", "down"}

\* the canonical tasks of the group: the todos c0..c3 (c3 completed) and the
\* habit k0; p0 is a task of a user that belongs to no group
CanonicalIds == {"c0", "c1", "c2", "c3", "k0"}
AllTaskIds == TaskIds \cup CanonicalIds \cup {"p0"}

\* the fields of the task documents that this controller only reads
taskType(id) == IF id = "k0" THEN "habit" ELSE "todo"
taskCompleted(id) == id = "c3"
taskGroupId(id) == IF id = "p0" THEN "undefined" ELSE "g1"

\* the group document
group == [_id |-> "g1", leader |-> "L", managers |-> [u \in {"M"} |-> "true"]]
GroupMembers == {"L", "M", "A"}

VARIABLES
  tasks,          \* the linked copies of the task store
  notifications,  \* user.notifications of every user, as stored
  now,            \* the clock read by new Date(); it advances with every request
  faults,         \* number of saves the store may still reject
  res,            \* the last response (or thrown error) of a handler
  approvedCalls,  \* per linked copy, the approveTask calls that responded 200
  auth,           \* one call of canNotEditTasks: its arguments and its result
  hs,             \* the request handlers in flight, each between two awaits
  tasksOrder,     \* group.tasksOrder: per task type, the ordered task ids
  assignedUsers,  \* per canonical task, the users it is linked (assigned) to
  chat            \* the chat messages of the group

storeVars == <<tasks, notifications>>
groupVars == <<tasksOrder, assignedUsers, chat>>
seqVars == <<tasks, notifications, now, faults, res, approvedCalls, hs, groupVars>>
vars == <<tasks, notifications, now, faults, res, approvedCalls, auth, hs, groupVars>>

\* ------------------------------------------------------------- notifications
Notification(type, taskId, direction, groupId, task, manager) ==
  [type |-> type, taskId |-> taskId, direction |-> direction,
   groupId |-> groupId, task |-> task, manager |-> manager]

\* Array.prototype.splice(index, 1)
splice(list, index) ==
  [i \in 1..(Len(list) - 1) |-> IF i <= index THEN list[i] ELSE list[i + 1]]

\* mutant: the task id not compared
findNotification_anyTask(task, notification) ==
  notification.type = "GROUP_TASK_APPROVAL"

\* the predicate of both findIndex calls
findNotification(task, notification) ==
  /\ notification.taskId = task
  /\ notification.type = "GROUP_TASK_APPROVAL"

\* Array.prototype.findIndex with findNotification: the 0-based index of the
\* first match from position i on, -1 if there is none
RECURSIVE findIndexFrom(_, _, _)
findIndexFrom(list, task, i) ==
  IF i > Len(list) THEN -1
  ELSE IF findNotification(task, list[i]) THEN i - 1
  ELSE findIndexFrom(list, task, i + 1)

notificationIndex(list, task) == findIndexFrom(list, task, 1)

\* user.addNotification(type, data)
addNotification(list, n) == Append(list, n)

\* ------------------------------------------------------------ authorization
\* JavaScript values are strings here; Boolean(v) is false for the falsy ones
UNDEFINED == "undefined"

Boolean(v) == v \notin {"false", UNDEFINED, NULL, ""}

\* map[key] of a plain object
Lookup(map, key) == IF key \in DOMAIN map THEN map[key] ELSE UNDEFINED

\* mutant: the leader comparison inverted
canNotEditTasks_leaderInverted(grp, user, assignedUserId) ==
  LET isNotGroupLeader == grp.leader = user
      isManager == Boolean(Lookup(grp.managers, user))
      userIsAssigningToSelf == Boolean(assignedUserId) /\ user = assignedUserId
  IN isNotGroupLeader /\ ~isManager /\ ~userIsAssigningToSelf

\* mutant: the self-assignment exception forgotten
canNotEditTasks_noSelfAssign(grp, user, assignedUserId) ==
  LET isNotGroupLeader == grp.leader # user
      isManager == Boolean(Lookup(grp.managers, user))
  IN isNotGroupLeader /\ ~isManager

canNotEditTasks(grp, user, assignedUserId) ==
  LET isNotGroupLeader == grp.leader # user
      isManager == Boolean(Lookup(grp.managers, user))
      userIsAssigningToSelf == Boolean(assignedUserId) /\ user = assignedUserId
  IN isNotGroupLeader /\ ~isManager /\ ~userIsAssigningToSelf

\* ------------------------------------------------------------------- stores
\* User.findById(id).exec()
findById(id) == IF id \in UserIds THEN id ELSE NULL

\* Tasks.Task.findOne({'group.taskId': taskId, userId: assignedUserId})
findOne(taskId, assignedUserId) ==
  LET found == {t \in TaskIds : /\ tasks[t].group.taskId = taskId
                                /\ tasks[t].userId = assignedUserId}
  IN IF found = {} THEN NULL ELSE CHOOSE t \in found : TRUE

\* Group.getGroup({user, groupId, fields}): the group, for its members only
getGroup(user, groupId) ==
  IF groupId = group._id /\ user \in GroupMembers THEN groupId ELSE NULL

\* Object.keys(group.managers) plus group.leader, as found by User.find
managersOf(grp) == (DOMAIN grp.managers \cup {grp.leader}) \cap UserIds

\* res.respond(...) or the error thrown: the command, the acting user, the
\* document the command resolved (a linked copy or a group), the outcome
Respond(cmd, user, target, status, direction, data) ==
  res' = [cmd |-> cmd, user |-> user, target |-> target,
          status |-> status, direction |-> direction, data |-> data]

\* ------------------------------------------------------------------- Init
NoResponse == [cmd |-> "none", user |-> NULL, target |-> NULL,
               status |-> "none", direction |-> NULL, data |-> {}]

\* a handler that serves no request
Handlers == {"h1", "h2"}

IdleHandler == [pc |-> "idle", cmd |-> "none", user |-> NULL, task |-> NULL,
                assignedUser |-> NULL, direction |-> NULL, failed |-> FALSE,
                pending |-> {}, read |-> <<>>, added |-> <<>>,
                approval |-> <<>>]

NoAuth == [leader |-> NULL, managers |-> <<>>, user |-> NULL,
           assignedUserId |-> NULL, called |-> FALSE, canNotEdit |-> FALSE]

PendingApproval(task, direction) ==
  Notification("GROUP_TASK_APPROVAL", task, direction, group._id, NULL, NULL)

InitStores ==
  /\ \E owner \in Owners :
       tasks = [t \in TaskIds |->
         IF t = "t0"
         THEN [userId |-> "A",
               group |-> [id |-> "g1", taskId |-> "c0",
                 approval |-> [requested |-> TRUE, requestedDate |-> 1,
                               approved |-> FALSE, dateApproved |-> NoDate,
                               approvingUser |-> NULL]]]
         ELSE [userId |-> owner,
               group |-> [id |-> "g1", taskId |-> "c1",
                 approval |-> [requested |-> FALSE, requestedDate |-> NoDate,
                               approved |-> FALSE, dateApproved |-> NoDate,
                               approvingUser |-> NULL]]]]
  /\ notifications = [u \in UserIds |->
       CASE u = "L" -> <<PendingApproval("t0", "down")>>
         [] u = "M" -> <<Notification("NEW_CHAT_MESSAGE", NULL, NULL, "g1", NULL, NULL),
                         PendingApproval("t0", "down")>>
         [] u = "A" -> <<Notification("NEW_CHAT_MESSAGE", NULL, NULL, "g1", NULL, NULL)>>
         [] OTHER -> <<>>]
  /\ now = 2
  /\ faults = MaxFailedSaves
  /\ res = NoResponse
  /\ approvedCalls = [t \in TaskIds |-> 0]
  /\ hs = [h \in Handlers |-> IdleHandler]
  /\ tasksOrder = [todos |-> <<"c0", "c1", "c2", "c3">>, habits |-> <<"k0">>]
  /\ assignedUsers = [c \in CanonicalIds |->
       {tasks[t].userId : t \in {x \in TaskIds : tasks[x].group.taskId = c}}]
  /\ chat = <<>>

Init == InitStores /\ auth = NoAuth

\* -------------------------------------------------- external collaborators
\* Scoring a linked copy that needs approval (the request): sets requested and
\* delivers one GROUP_TASK_APPROVAL to every manager and the leader.
RequestApproval(task, direction) ==
  /\ res.cmd = "none"
  /\ now < MaxRequests + 2
  /\ ~tasks[task].group.approval.approved
  /\ ~tasks[task].group.approval.requested
  /\ tasks' = [tasks EXCEPT ![task].group.approval.requested = TRUE,
                            ![task].group.approval.requestedDate = now]
  /\ notifications' = [u \in UserIds |->
       IF u \in managersOf(group)
       THEN addNotification(notifications[u], PendingApproval(task, direction))
       ELSE notifications[u]]
  /\ now' = now + 1
  /\ UNCHANGED <<faults, approvedCalls, auth, hs, groupVars>>
  /\ Respond("scoreTask", tasks[task].userId, task,
             "taskApprovalHasBeenRequested", direction, {})

\* ---------------------------------------------------------------- handlers
\* mutant: the once-only check left out
alreadyApproved_unchecked(doc) == FALSE

\* if (task.group.approval.approved === true) throw ...
alreadyApproved(doc) == doc.group.approval.approved = TRUE

\* mutant: the requested check left out
approvalNotRequested_unchecked(doc) == FALSE

\* if (!task.group.approval.requested) throw ...
approvalNotRequested(doc) == ~doc.group.approval.requested

\* the three assignments of approveTask to the task it read
approveFields(doc, user, date) ==
  [doc EXCEPT !.group.approval.dateApproved = date,
              !.group.approval.approvingUser = user,
              !.group.approval.approved = TRUE]

\* mutant: the date of the request kept
needsWorkFields_keepDate(doc) ==
  [doc EXCEPT !.group.approval.requested = FALSE]

\* the two assignments of taskNeedsWork to the task it read
needsWorkFields(doc) ==
  [doc EXCEPT !.group.approval.requested = FALSE,
              !.group.approval.requestedDate = NoDate]

\* "Get task direction": read from the first manager's notifications only
taskDirection(firstManagerNotifications, task) ==
  LET firstNotificationIndex ==
        notificationIndex(firstManagerNotifications, task)
  IN IF firstNotificationIndex # -1
     THEN firstManagerNotifications[firstNotificationIndex + 1].direction
     ELSE "up"

\* "Remove old notifications": the managers whose list is spliced and saved
managersToSave(lists, managers, task) ==
  {m \in managers : notificationIndex(lists[m], task) # -1}

\* the manager's list after manager.notifications.splice(notificationIndex, 1)
removeOldNotification(list, task) ==
  splice(list, notificationIndex(list, task))

\* mutant: the two notifications added in the other order
approvedNotifications_swapped(task, direction) ==
  << Notification("SCORED_TASK", NULL, direction, NULL, task, NULL),
     Notification("GROUP_TASK_APPROVED", NULL, NULL, group._id, NULL, NULL) >>

\* "Add new notifications to user" of approveTask
approvedNotifications(task, direction) ==
  << Notification("GROUP_TASK_APPROVED", NULL, NULL, group._id, NULL, NULL),
     Notification("SCORED_TASK", NULL, direction, NULL, task, NULL) >>

\* the GROUP_TASK_NEEDS_WORK notification of taskNeedsWork
needsWorkNotifications(task, user) ==
  << Notification("GROUP_TASK_NEEDS_WORK", NULL, NULL, group._id, task, user) >>

\* mutant: no save applied when one of them is rejected
SavedNotifications_allOrNothing(task, toSave, assignedUser, added, failed) ==
  [u \in UserIds |->
    LET kept == IF u \in toSave /\ failed = {}
                THEN removeOldNotification(notifications[u], task)
                ELSE notifications[u]
    IN IF u = assignedUser /\ failed = {}
       THEN kept \o added
       ELSE kept]

\* What the saves of one handler leave in the user store: every manager save
\* that lands stores that manager's spliced list, the assignee's save (if it
\* lands) appends the new notifications.  failed: the saves that are rejected.
SavedNotifications(task, toSave, assignedUser, added, failed) ==
  [u \in UserIds |->
    LET kept == IF u \in toSave \ failed
                THEN removeOldNotification(notifications[u], task)
                ELSE notifications[u]
    IN IF u = assignedUser /\ "assignedUser" \notin failed
       THEN kept \o added
       ELSE kept]

\* the sets of saves of one handler that the store rejects
FailedSaves(saves) == {f \in SUBSET saves : Cardinality(f) <= faults}

Thrown(cmd, user, target, status) ==
  /\ Respond(cmd, user, target, status, NULL, {})
  /\ UNCHANGED <<tasks, notifications, now, faults, approvedCalls, auth, hs, groupVars>>

\* the saves of a handler, issued together: the manager saves that were pushed
\* before a throw land even when the handler throws on a null assignedUser
IssueSaves(cmd, user, task, doc, assignedUser, added, direction) ==
  LET toSave == managersToSave(notifications, managersOf(group), task)
      saves == IF assignedUser = NULL THEN toSave
               ELSE toSave \cup {"task", "assignedUser"}
  IN \E failed \in FailedSaves(saves) :
       LET status == IF assignedUser = NULL THEN "TypeError"
                     ELSE IF failed = {} THEN "ok" ELSE "saveError"
       IN
       /\ notifications' =
            SavedNotifications(task, toSave, assignedUser, added, failed)
       /\ tasks' = IF "task" \in saves \ failed
                   THEN [tasks EXCEPT ![task] = doc] ELSE tasks
       /\ faults' = faults - Cardinality(failed)
       /\ approvedCalls' =
            IF cmd = "approveTask" /\ status = "ok"
            THEN [approvedCalls EXCEPT ![task] = @ + 1] ELSE approvedCalls
       /\ Respond(cmd, user, task, status, direction, {task})
       /\ UNCHANGED <<now, auth, hs, groupVars>>

\* api.approveTask.handler
ApproveTask(user, taskId, assignedUserId) ==
  /\ res.cmd = "none"
  /\ LET assignedUser == findById(assignedUserId)
         task == findOne(taskId, assignedUserId)
         Throw(status) == Thrown("approveTask", user, task, status)
     IN
     IF task = NULL THEN Throw("taskNotFound")
     ELSE IF getGroup(user, tasks[task].group.id) = NULL THEN Throw("groupNotFound")
     ELSE IF canNotEditTasks(group, user, UNDEFINED)
          THEN Throw("onlyGroupLeaderCanEditTasks")
     ELSE IF alreadyApproved(tasks[task]) THEN Throw("canOnlyApproveTaskOnce")
     ELSE
       \* managers[0]: User.find returns the managers in the store's order
       \E first \in managersOf(group) :
         LET direction == taskDirection(notifications[first], task)
         IN IssueSaves("approveTask", user, task,
                       approveFields(tasks[task], user, now), assignedUser,
                       approvedNotifications(task, direction), direction)

\* api.taskNeedsWork.handler
TaskNeedsWork(user, taskId, assignedUserId) ==
  /\ res.cmd = "none"
  /\ LET assignedUser == findById(assignedUserId)
         task == findOne(taskId, assignedUserId)
         Throw(status) == Thrown("taskNeedsWork", user, task, status)
     IN
     IF task = NULL THEN Throw("taskNotFound")
     ELSE IF getGroup(user, tasks[task].group.id) = NULL THEN Throw("groupNotFound")
     ELSE IF canNotEditTasks(group, user, UNDEFINED)
          THEN Throw("onlyGroupLeaderCanEditTasks")
     ELSE IF alreadyApproved(tasks[task]) THEN Throw("canOnlyApproveTaskOnce")
     ELSE IF approvalNotRequested(tasks[task])
          THEN Throw("taskApprovalWasNotRequested")
     ELSE IssueSaves("taskNeedsWork", user, task, needsWorkFields(tasks[task]),
                     assignedUser, needsWorkNotifications(task, user), NULL)

\* mutant: the requested condition left out of the query
findApprovals_anyUnapproved(groupId) ==
  {t \in TaskIds : /\ tasks[t].group.id = groupId
                   /\ tasks[t].group.approval.approved = FALSE}

\* Tasks.Task.find({'group.id', 'group.approval.approved': false,
\* 'group.approval.requested': true})
findApprovals(groupId) ==
  {t \in TaskIds : /\ tasks[t].group.id = groupId
                   /\ tasks[t].group.approval.approved = FALSE
                   /\ tasks[t].group.approval.requested = TRUE}

\* api.getGroupApprovals.handler
GetGroupApprovals(user, groupId) ==
  /\ res.cmd = "none"
  /\ LET Throw(status) == Thrown("getGroupApprovals", user, groupId, status)
         approvals == findApprovals(groupId)
     IN
     IF getGroup(user, groupId) = NULL THEN Throw("groupNotFound")
     ELSE IF canNotEditTasks(group, user, UNDEFINED)
          THEN Throw("onlyGroupLeaderCanEditTasks")
     ELSE /\ Respond("getGroupApprovals", user, groupId, "ok", NULL, approvals)
          /\ UNCHANGED <<tasks, notifications, now, faults, approvedCalls, auth, hs, groupVars>>


\* ------------------------------------------------------------ groupMoveTask
\* Tasks.Task.findOne({_id: taskId}): any task of the store, whoever owns it
findTask(taskId) == IF taskId \in AllTaskIds THEN taskId ELSE NULL

\* order without taskId
removeTask(order, taskId) == SelectSeq(order, LAMBDA x : x # taskId)

\* Array.prototype.splice(start, 0, x): start counts from the end when it is
\* negative and is clamped to the list
spliceInsert(list, start, x) ==
  LET len == Len(list)
      at == IF start < 0
            THEN (IF len + start < 0 THEN 0 ELSE len + start)
            ELSE (IF start > len THEN len ELSE start)
  IN SubSeq(list, 1, at) \o <<x>> \o SubSeq(list, at + 1, len)

\* moveTask(order, taskId, to) of libs/taskManager: the task is taken out of
\* the list if it is there, then pushed (to = -1) or inserted at index to
moveTask(order, taskId, to) ==
  LET removed == removeTask(order, taskId)
  IN IF to = -1 THEN Append(removed, taskId)
     ELSE spliceInsert(removed, to, taskId)

\* mutant: every task ordered in the todos
tasksOrderKey_todos(type) == "todos"

\* `${task.type}s`
tasksOrderKey(type) == IF type = "habit" THEN "habits" ELSE "todos"

\* mutant: the completed-todo check left out
cantMoveCompletedTodo_unchecked(task) == FALSE

\* if (task.type === 'todo' && task.completed) throw ...
cantMoveCompletedTodo(task) == taskType(task) = "todo" /\ taskCompleted(task)

\* mutant: the managers may move as well
notGroupLeader_managers(grp, user) ==
  grp.leader # user /\ ~Boolean(Lookup(grp.managers, user))

\* if (group.leader !== user._id) throw ...
notGroupLeader(grp, user) == grp.leader # user

\* api.groupMoveTask.handler
GroupMoveTask(user, taskId, to) ==
  /\ res.cmd = "none"
  /\ LET task == findTask(taskId)
         Throw(status) == Thrown("groupMoveTask", user, task, status)
     IN
     IF task = NULL THEN Throw("taskNotFound")
     ELSE IF cantMoveCompletedTodo(task) THEN Throw("cantMoveCompletedTodo")
     ELSE IF getGroup(user, taskGroupId(task)) = NULL THEN Throw("groupNotFound")
     ELSE IF notGroupLeader(group, user)
          THEN Throw("onlyGroupLeaderCanEditTasks")
     ELSE
       LET key == tasksOrderKey(taskType(task))
           order == moveTask(tasksOrder[key], task, to)
       IN /\ tasksOrder' = [tasksOrder EXCEPT ![key] = order]
          /\ Respond("groupMoveTask", user, task, "ok", NULL,
                     [position |-> to, order |-> order])
          /\ UNCHANGED <<tasks, notifications, now, faults, approvedCalls,
                         auth, hs, assignedUsers, chat>>

\* --------------------------------------------------- assignTask, unassignTask
\* Tasks.Task.findByIdOrAlias(taskId, user._id) with the id of a task
findByIdOrAlias(taskId, user) == findTask(taskId)

\* an error thrown by a handler, with the assigned user id of the request
ThrownWith(cmd, user, target, status, data) ==
  /\ Respond(cmd, user, target, status, NULL, data)
  /\ UNCHANGED <<tasks, notifications, now, faults, approvedCalls, auth, hs,
                 groupVars>>

\* mutant: the check made the wrong way round
notGroupTask_inverted(task) == Boolean(taskGroupId(task))

\* mutant: the group task check left out
notGroupTask_unchecked(task) == FALSE

\* if (!task.group.id) throw ...
notGroupTask(task) == ~Boolean(taskGroupId(task))

\* group.syncTask(task, assignedUser): the assigned user gets a linked copy
syncTask(links, task, assignedUser) ==
  IF task \in DOMAIN links
  THEN [links EXCEPT ![task] = @ \cup {assignedUser}] ELSE links

\* group.unlinkTask(task, assignedUser): the link and the copy are removed
unlinkTask(links, task, assignedUser) ==
  IF task \in DOMAIN links
  THEN [links EXCEPT ![task] = @ \ {assignedUser}] ELSE links

\* group.sendChat(message) of a user claiming a task
sendChat(user, task) == [type |-> "userIsClamingTask", user |-> user, task |-> task]

\* api.assignTask.handler.  Nothing stops the handler when assignedUser is
\* null: syncTask is then called with null and its promise is rejected.
AssignTask(user, taskId, assignedUserId) ==
  /\ res.cmd = "none"
  /\ LET assignedUser == findById(assignedUserId)
         task == findByIdOrAlias(taskId, user)
         Throw(status) ==
           ThrownWith("assignTask", user, task, status, {assignedUserId})
     IN
     IF task = NULL THEN Throw("taskNotFound")
     ELSE IF notGroupTask(task) THEN Throw("onlyGroupTasksCanBeAssigned")
     ELSE IF getGroup(user, taskGroupId(task)) = NULL THEN Throw("groupNotFound")
     ELSE IF canNotEditTasks(group, user, assignedUserId)
          THEN Throw("onlyGroupLeaderCanEditTasks")
     ELSE
       /\ user = assignedUserId => Len(chat) < MaxChat
       /\ chat' = IF user = assignedUserId
                  THEN Append(chat, sendChat(user, task)) ELSE chat
       /\ assignedUsers' = IF assignedUser = NULL THEN assignedUsers
                           ELSE syncTask(assignedUsers, task, assignedUser)
       /\ Respond("assignTask", user, task,
                  IF assignedUser = NULL THEN "TypeError" ELSE "ok",
                  NULL, {assignedUserId})
       /\ UNCHANGED <<tasks, notifications, now, faults, approvedCalls,
                      auth, hs, tasksOrder>>

\* api.unassignTask.handler
UnassignTask(user, taskId, assignedUserId) ==
  /\ res.cmd = "none"
  /\ LET assignedUser == findById(assignedUserId)
         task == findByIdOrAlias(taskId, user)
         Throw(status) ==
           ThrownWith("unassignTask", user, task, status, {assignedUserId})
     IN
     IF task = NULL THEN Throw("taskNotFound")
     ELSE IF notGroupTask(task) THEN Throw("onlyGroupTasksCanBeAssigned")
     ELSE IF getGroup(user, taskGroupId(task)) = NULL THEN Throw("groupNotFound")
     ELSE IF canNotEditTasks(group, user, assignedUserId)
          THEN Throw("onlyGroupLeaderCanEditTasks")
     ELSE
       /\ assignedUsers' = IF assignedUser = NULL THEN assignedUsers
                           ELSE unlinkTask(assignedUsers, task, assignedUser)
       /\ Respond("unassignTask", user, task,
                  IF assignedUser = NULL THEN "TypeError" ELSE "ok",
                  NULL, {assignedUserId})
       /\ UNCHANGED <<tasks, notifications, now, faults, approvedCalls,
                      auth, hs, tasksOrder, chat>>

\* the response (or the error) reaches the client: the request is over
EndRequest ==
  /\ res.cmd # "none"
  /\ res' = NoResponse
  /\ UNCHANGED <<tasks, notifications, now, faults, approvedCalls, auth, hs, groupVars>>

\* ------------------------------------------------------------ specification
\* one request at a time: a handler runs when the previous request is over
Next ==
  \/ \E d \in Directions : RequestApproval("t1", d)
  \/ \E u \in UserIds, p \in Params : ApproveTask(u, p[1], p[2])
  \/ \E u \in UserIds, p \in Params : TaskNeedsWork(u, p[1], p[2])
  \/ \E u \in UserIds, g \in GroupIds : GetGroupApprovals(u, g)
  \/ EndRequest

Spec == Init /\ [][Next]_vars

\* ------------------------------------- the commands on the group's tasks
\* the ids and positions of the requests: zz resolves to no task, Z to no user
MoveTaskIds == {"c0", "c3", "k0", "t0", "p0", "zz"}
Positions == -2..MaxPosition
AssignTaskIds == {"c2", "p0", "zz"}
AssignedUserIds == {"A", "Z"}

InitGroup == InitStores /\ tasks["t1"].userId = "A" /\ auth = NoAuth

NextGroup ==
  \/ \E u \in UserIds, t \in MoveTaskIds, to \in Positions :
       GroupMoveTask(u, t, to)
  \/ \E u \in UserIds, t \in AssignTaskIds, a \in AssignedUserIds :
       AssignTask(u, t, a)
  \/ \E u \in UserIds, t \in AssignTaskIds, a \in AssignedUserIds :
       UnassignTask(u, t, a)
  \/ \E u \in UserIds, p \in Params : ApproveTask(u, p[1], p[2])
  \/ \E u \in UserIds, p \in Params : TaskNeedsWork(u, p[1], p[2])
  \/ \E u \in UserIds, g \in GroupIds : GetGroupApprovals(u, g)
  \/ EndRequest

SpecGroup == InitGroup /\ [][NextGroup]_vars

\* ----------------------------------------- canNotEditTasks on its own
AuthUserIds == {"L", "M", "A"}
AuthAssignedUserIds == AuthUserIds \cup {UNDEFINED, ""}
AuthManagers ==
  UNION {[keys -> {"true", "false"}] : keys \in SUBSET AuthUserIds}

InitAuth ==
  /\ InitStores
  /\ auth \in [leader : AuthUserIds, managers : AuthManagers,
               user : AuthUserIds, assignedUserId : AuthAssignedUserIds,
               called : {FALSE}, canNotEdit : {FALSE}]

CallCanNotEditTasks ==
  /\ ~auth.called
  /\ auth' = [auth EXCEPT
       !.called = TRUE,
       !.canNotEdit = canNotEditTasks(
         [leader |-> auth.leader, managers |-> auth.managers],
         auth.user, auth.assignedUserId)]
  /\ UNCHANGED seqVars

NextAuth == CallCanNotEditTasks

SpecAuth == InitAuth /\ [][NextAuth]_vars


\* ------------------------------------------- the handlers, interleaved
\* Each handler runs from one await to the next in one step; the saves it
\* issues land one by one, in any order, between the steps of other handlers.
ConcCmds == {"approveTask", "taskNeedsWork"}
ConcUserIds == {"L", "M", "A"}
ConcParams == {<<"c0", "A">>}

ThrownConc(cmd, user, target, status) ==
  /\ Respond(cmd, user, target, status, NULL, {})
  /\ UNCHANGED <<tasks, notifications, now, faults, approvedCalls, auth, hs, groupVars>>

\* the approval fields a handler has assigned, i.e. what task.save() writes
modifiedApproval(cmd, doc) ==
  IF cmd = "approveTask"
  THEN [dateApproved |-> doc.group.approval.dateApproved,
        approvingUser |-> doc.group.approval.approvingUser,
        approved |-> doc.group.approval.approved]
  ELSE [requested |-> doc.group.approval.requested,
        requestedDate |-> doc.group.approval.requestedDate]

\* task.save(): the assigned fields are written, the others are left as stored
saveTask(stored, modified) ==
  [stored EXCEPT !.group.approval =
    [f \in DOMAIN @ |-> IF f \in DOMAIN modified THEN modified[f] ELSE @[f]]]

\* the handler up to User.find: the task is read, the checks are made on the
\* task as read, the fields are assigned to it
StartHandler(h, cmd, user, taskId, assignedUserId) ==
  /\ hs[h].pc = "idle"
  /\ LET assignedUser == findById(assignedUserId)
         task == findOne(taskId, assignedUserId)
         Throw(status) == ThrownConc(cmd, user, task, status)
     IN
     IF task = NULL THEN Throw("taskNotFound")
     ELSE IF getGroup(user, tasks[task].group.id) = NULL THEN Throw("groupNotFound")
     ELSE IF canNotEditTasks(group, user, UNDEFINED)
          THEN Throw("onlyGroupLeaderCanEditTasks")
     ELSE IF alreadyApproved(tasks[task]) THEN Throw("canOnlyApproveTaskOnce")
     ELSE IF cmd = "taskNeedsWork" /\ approvalNotRequested(tasks[task])
          THEN Throw("taskApprovalWasNotRequested")
     ELSE
       /\ hs' = [hs EXCEPT ![h] =
            [IdleHandler EXCEPT
               !.pc = "findManagers", !.cmd = cmd, !.user = user,
               !.task = task, !.assignedUser = assignedUser,
               !.approval = modifiedApproval(cmd,
                  IF cmd = "approveTask"
                  THEN approveFields(tasks[task], user, now)
                  ELSE needsWorkFields(tasks[task]))]]
       /\ UNCHANGED <<tasks, notifications, now, faults, res, approvedCalls, auth, groupVars>>

\* the handler from User.find to Promise.all: the managers' lists are read,
\* the direction is taken, the saves are issued
FindManagers(h) ==
  /\ hs[h].pc = "findManagers"
  /\ \E first \in managersOf(group) :
       LET task == hs[h].task
           direction == IF hs[h].cmd = "approveTask"
                        THEN taskDirection(notifications[first], task)
                        ELSE NULL
           toSave == managersToSave(notifications, managersOf(group), task)
       IN hs' = [hs EXCEPT ![h] =
            [@ EXCEPT
               !.pc = "saving",
               !.direction = direction,
               !.read = [m \in toSave |-> notifications[m]],
               !.failed = (hs[h].assignedUser = NULL),
               !.pending = IF hs[h].assignedUser = NULL THEN toSave
                           ELSE toSave \cup {"task", "assignedUser"},
               !.added = IF hs[h].cmd = "approveTask"
                         THEN approvedNotifications(task, direction)
                         ELSE needsWorkNotifications(task, hs[h].user)]]
  /\ UNCHANGED <<tasks, notifications, now, faults, res, approvedCalls, auth, groupVars>>

\* one of the saves a handler has issued reaches the store.  The task's save
\* and the assignee's push always land; a manager's spliced list replaces the
\* stored one only if the stored one is still the list that was read.
SaveLands(h, save) ==
  /\ hs[h].pc = "saving"
  /\ save \in hs[h].pending
  /\ LET task == hs[h].task
         stale == /\ save \notin {"task", "assignedUser"}
                  /\ notifications[save] # hs[h].read[save]
     IN
     /\ tasks' = IF save = "task"
                 THEN [tasks EXCEPT ![task] = saveTask(@, hs[h].approval)]
                 ELSE tasks
     /\ notifications' =
          IF save = "task" \/ stale THEN notifications
          ELSE IF save = "assignedUser"
          THEN [notifications EXCEPT ![hs[h].assignedUser] = @ \o hs[h].added]
          ELSE [notifications EXCEPT
                  ![save] = removeOldNotification(hs[h].read[save], task)]
     /\ hs' = [hs EXCEPT ![h].pending = @ \ {save},
                         ![h].failed = @ \/ stale]
  /\ UNCHANGED <<now, faults, res, approvedCalls, auth, groupVars>>

\* Promise.all has settled: res.respond(200, task), or the error of a save
Settle(h) ==
  /\ hs[h].pc = "saving"
  /\ hs[h].pending = {}
  /\ LET status == IF hs[h].assignedUser = NULL THEN "TypeError"
                   ELSE IF hs[h].failed THEN "saveError" ELSE "ok"
     IN
     /\ Respond(hs[h].cmd, hs[h].user, hs[h].task, status,
                hs[h].direction, {hs[h].task})
     /\ approvedCalls' =
          IF hs[h].cmd = "approveTask" /\ status = "ok"
          THEN [approvedCalls EXCEPT ![hs[h].task] = @ + 1] ELSE approvedCalls
  /\ hs' = [hs EXCEPT ![h] = IdleHandler]
  /\ UNCHANGED <<tasks, notifications, now, faults, auth, groupVars>>

\* the racing requests are all on the pending copy t0
InitConc == InitStores /\ tasks["t1"].userId = "A" /\ auth = NoAuth

NextConc ==
  \/ \E h \in Handlers, cmd \in ConcCmds, u \in ConcUserIds, p \in ConcParams :
       StartHandler(h, cmd, u, p[1], p[2])
  \/ \E h \in Handlers : FindManagers(h)
  \/ \E h \in Handlers, save \in managersOf(group) \cup {"task", "assignedUser"} :
       SaveLands(h, save)
  \/ \E h \in Handlers : Settle(h)

SpecConc == InitConc /\ [][NextConc]_vars

\* ------------------------------------------------------------------ claims
Approval(t) == tasks[t].group.approval

\* the group's leader and its managers
IsLeaderOrManager(u) ==
  \/ u = group.leader
  \/ u \in DOMAIN group.managers /\ group.managers[u] = "true"

LeaderAndManagers == {u \in UserIds : IsLeaderOrManager(u)}

IsPendingApproval(n, t) == n.type = "GROUP_TASK_APPROVAL" /\ n.taskId = t

PendingIndexes(list, t) == {i \in 1..Len(list) : IsPendingApproval(list[i], t)}

HoldsPending(list, t) == PendingIndexes(list, t) # {}

\* the list without its i-th entry
Without(list, i) == SubSeq(list, 1, i - 1) \o SubSeq(list, i + 1, Len(list))

\* the list without its first pending approval of t, if it holds one
WithoutFirstPending(list, t) ==
  IF HoldsPending(list, t)
  THEN Without(list, CHOOSE i \in PendingIndexes(list, t) :
                       \A j \in PendingIndexes(list, t) : i <= j)
  ELSE list

\* the entries of the list that are no pending approval of t, in their order
Others(list, t) == SelectSeq(list, LAMBDA n : ~IsPendingApproval(n, t))

\* this step is a call of cmd that resolved a linked copy
Called(cmd) == res'.cmd = cmd /\ res'.target \in TaskIds

\* this step is a call of cmd on a linked copy that responded 200
Succeeded(cmd) == Called(cmd) /\ res'.status = "ok"

\* C2: ApproveTask by the leader or a manager on a linked copy that is not
\* yet approved, when it succeeds, stores approved = true (with the actor and
\* the date); on a copy already approved it fails with 'can only approve once'
\* and changes no task and no notification list.
C2_SecondApproveFails ==
  [][ (Called("approveTask") /\ IsLeaderOrManager(res'.user)) =>
        IF Approval(res'.target).approved
        THEN /\ res'.status = "canOnlyApproveTaskOnce"
             /\ tasks' = tasks
             /\ notifications' = notifications
        ELSE /\ res'.status \in {"ok", "saveError"}
             /\ res'.status = "ok" =>
                  /\ tasks'[res'.target].group.approval.approved = TRUE
                  /\ tasks'[res'.target].group.approval.approvingUser = res'.user
                  /\ tasks'[res'.target].group.approval.dateApproved = now
    ]_vars

C2_Witness ==
  /\ res.cmd = "approveTask"
  /\ res.status = "canOnlyApproveTaskOnce"
  /\ res.target = "t1"
  /\ Approval("t1").approved
  /\ approvedCalls["t1"] = 1

\* C3: a linked copy becomes approved only from the requested state.
C3_ApprovedOnlyFromRequested ==
  [][ \A t \in TaskIds :
        (~Approval(t).approved /\ tasks'[t].group.approval.approved)
          => Approval(t).requested ]_vars

\* C5: RequestNeedsWork on a linked copy whose requested is false fails with
\* an error, approved or not ('approval was not requested' for the leader or
\* a manager on a copy not approved), and changes no task and no notification
\* list.
C5_NeedsWorkNeedsRequest ==
  [][ (Called("taskNeedsWork") /\ ~Approval(res'.target).requested) =>
        /\ res'.status \in {"groupNotFound", "onlyGroupLeaderCanEditTasks",
                            "canOnlyApproveTaskOnce",
                            "taskApprovalWasNotRequested"}
        /\ (IsLeaderOrManager(res'.user) /\ ~Approval(res'.target).approved)
             => res'.status = "taskApprovalWasNotRequested"
        /\ tasks' = tasks
        /\ notifications' = notifications
    ]_vars

C5_Witness ==
  /\ res.cmd = "taskNeedsWork"
  /\ res.target = "t1"
  /\ res.status = "taskApprovalWasNotRequested"
  /\ ~Approval("t1").requested
  /\ Approval("t1").requestedDate = NoDate
  /\ now > 2

\* C6 as stated: after a successful ApproveTask or RequestNeedsWork on T no
\* leader or manager holds a pending approval of T, their other notifications
\* are kept in order, and who held none has an identical list.
C6_NoPendingLeft ==
  [][ (Succeeded("approveTask") \/ Succeeded("taskNeedsWork")) =>
        \A u \in LeaderAndManagers :
          /\ ~HoldsPending(notifications'[u], res'.target)
          /\ Others(notifications'[u], res'.target)
               = Others(notifications[u], res'.target)
          /\ ~HoldsPending(notifications[u], res'.target)
               => notifications'[u] = notifications[u]
    ]_vars

\* C6 amended: after a successful ApproveTask or RequestNeedsWork on T every
\* leader or manager has lost the first pending approval of T it held and
\* nothing else (so none is left where it held at most one, and the list of
\* who held none is identical); only the assignee, when it is the leader or a
\* manager, also has the call's own notifications appended.
C6_FirstPendingRemoved ==
  [][ (Succeeded("approveTask") \/ Succeeded("taskNeedsWork")) =>
        \A u \in LeaderAndManagers :
          LET kept == WithoutFirstPending(notifications[u], res'.target)
          IN IF u = tasks[res'.target].userId
             THEN /\ Len(notifications'[u]) > Len(kept)
                  /\ SubSeq(notifications'[u], 1, Len(kept)) = kept
                  /\ \A i \in (Len(kept) + 1)..Len(notifications'[u]) :
                       notifications'[u][i].type \in
                         {"GROUP_TASK_APPROVED", "SCORED_TASK",
                          "GROUP_TASK_NEEDS_WORK"}
             ELSE notifications'[u] = kept
    ]_vars

C6_Witness ==
  /\ res.cmd \in {"approveTask", "taskNeedsWork"}
  /\ res.status = "ok"
  /\ res.target = "t1"
  /\ now > 2
  /\ \A u \in LeaderAndManagers :
       /\ ~HoldsPending(notifications[u], "t1")
       /\ HoldsPending(notifications[u], "t0")

\* what the assignee's list holds after the call's own notifications
Last(list, k) == SubSeq(list, Len(list) - k + 1, Len(list))

OwnNotifications ==
  IF res'.cmd = "approveTask"
  THEN << [type |-> "GROUP_TASK_APPROVED", taskId |-> NULL, direction |-> NULL,
           groupId |-> group._id, task |-> NULL, manager |-> NULL],
          [type |-> "SCORED_TASK", taskId |-> NULL, direction |-> res'.direction,
           groupId |-> NULL, task |-> res'.target, manager |-> NULL] >>
  ELSE << [type |-> "GROUP_TASK_NEEDS_WORK", taskId |-> NULL, direction |-> NULL,
           groupId |-> group._id, task |-> res'.target, manager |-> res'.user] >>

\* C7 as stated: a successful ApproveTask appends GROUP_TASK_APPROVED then
\* SCORED_TASK to the assignee's list, a successful RequestNeedsWork appends
\* GROUP_TASK_NEEDS_WORK, and nothing the assignee held is removed or moved.
C7_OnlyAppends ==
  [][ (Succeeded("approveTask") \/ Succeeded("taskNeedsWork")) =>
        notifications'[tasks[res'.target].userId]
          = notifications[tasks[res'.target].userId] \o OwnNotifications
    ]_vars

\* C7 amended: a successful ApproveTask appends GROUP_TASK_APPROVED then
\* SCORED_TASK (with the task and the direction) to the assignee's list, a
\* successful RequestNeedsWork appends GROUP_TASK_NEEDS_WORK (with the task,
\* the group and the acting manager); nothing the assignee held is removed or
\* moved, except that an assignee who is the leader or a manager loses, as
\* every leader or manager does, its first pending approval of that task.
C7_AppendsAfterClearing ==
  [][ (Succeeded("approveTask") \/ Succeeded("taskNeedsWork")) =>
        LET a == tasks[res'.target].userId
            kept == IF IsLeaderOrManager(a)
                    THEN WithoutFirstPending(notifications[a], res'.target)
                    ELSE notifications[a]
        IN notifications'[a] = kept \o OwnNotifications
    ]_vars

C7_Witness ==
  /\ res.cmd = "approveTask"
  /\ res.status = "ok"
  /\ res.target = "t1"
  /\ tasks["t1"].userId = "M"
  /\ Approval("t1").requested
  /\ ~HoldsPending(notifications["M"], "t1")
  /\ Len(notifications["M"]) = 4
  /\ notifications["M"][3].type = "GROUP_TASK_APPROVED"
  /\ notifications["M"][4].type = "SCORED_TASK"

\* the direction of the first pending approval of t in the list
FirstPendingDirection(list, t) ==
  list[CHOOSE i \in PendingIndexes(list, t) :
         \A j \in PendingIndexes(list, t) : i <= j].direction

\* C8: the direction of a successful ApproveTask on T, which its SCORED_TASK
\* carries, is the direction of the first pending approval of T of a leader or
\* manager who holds one, and 'up' only if none of them holds one.
C8_DirectionOfPending ==
  [][ Succeeded("approveTask") =>
        LET holders == {u \in LeaderAndManagers :
                          HoldsPending(notifications[u], res'.target)}
            list == notifications'[tasks[res'.target].userId]
        IN /\ res'.direction \in Directions
           /\ list[Len(list)].type = "SCORED_TASK"
           /\ list[Len(list)].direction = res'.direction
           /\ IF holders = {}
              THEN res'.direction = "up"
              ELSE res'.direction \in
                     {FirstPendingDirection(notifications[u], res'.target) :
                        u \in holders}
    ]_vars

\* C9: ApproveTask, RequestNeedsWork and ListPendingApprovals succeed only for
\* the leader or a manager; called by anyone else, the assignee of the task
\* included, they fail and change no task and no notification list.
C9_LeaderOrManagerOnly ==
  [][ (/\ res'.cmd \in {"approveTask", "taskNeedsWork", "getGroupApprovals"}
       /\ res'.target \in TaskIds \cup GroupIds
       /\ ~IsLeaderOrManager(res'.user)) =>
        /\ res'.status \in {"groupNotFound", "onlyGroupLeaderCanEditTasks"}
        /\ res'.data = {}
        /\ tasks' = tasks
        /\ notifications' = notifications
    ]_vars

C9_Witness ==
  /\ res.cmd = "approveTask"
  /\ res.user = "A"
  /\ res.target = "t1"
  /\ tasks["t1"].userId = "A"
  /\ Approval("t1").requested
  /\ ~Approval("t1").approved
  /\ res.status = "onlyGroupLeaderCanEditTasks"

\* C10: canNotEditTasks(G, A, U) is false (A can edit) exactly when A is G's
\* leader, or G.managers[A] is true, or U is supplied and equals A.
C10_CanEdit ==
  auth.called =>
    (~auth.canNotEdit <=>
       \/ auth.user = auth.leader
       \/ auth.user \in DOMAIN auth.managers /\ auth.managers[auth.user] = "true"
       \/ auth.assignedUserId \notin {UNDEFINED, ""}
            /\ auth.assignedUserId = auth.user)

C10_Witness ==
  /\ auth.called
  /\ ~auth.canNotEdit
  /\ auth.user # auth.leader
  /\ auth.user \in DOMAIN auth.managers
  /\ auth.managers[auth.user] = "false"
  /\ auth.assignedUserId = auth.user

\* C1: in every execution, the handlers interleaved at their store reads and
\* saves included, at most one ApproveTask call on a linked copy ever
\* responds 200.
C1_ApprovedAtMostOnce == \A t \in TaskIds : approvedCalls[t] <= 1

\* C4: approved is terminal: once the stored approval state of a linked copy
\* has approved = true, no step of any handler changes any of its fields.
C4_ApprovedIsTerminal ==
  [][ \A t \in TaskIds :
        Approval(t).approved => tasks'[t].group.approval = Approval(t) ]_vars

\* the assigned user id of an assignTask or unassignTask request
Assigned == CHOOSE a \in res'.data : TRUE

\* the acting user may edit: the leader, a manager, or the assigned user
CanEdit(user, assignedUserId) ==
  IsLeaderOrManager(user) \/ user = assignedUserId

\* C11 as stated: AssignTask on an existing task whose group.id is absent,
\* by an actor who may edit for an assigned user that exists, succeeds.
C11_AssignCanonical ==
  [][ ( /\ res'.cmd = "assignTask"
        /\ res'.target \in AllTaskIds
        /\ taskGroupId(res'.target) = "undefined"
        /\ Assigned \in UserIds
        /\ CanEdit(res'.user, Assigned) )
      => res'.status = "ok" ]_vars

\* C11 amended: AssignTask on an existing task whose group.id is absent
\* fails with 'only group tasks can be assigned' and links nobody and posts
\* nothing; on an existing task whose group.id is present, by a member of the
\* group who may edit for an assigned user that exists, it succeeds and the
\* assigned user is linked to the task.
C11_AssignGroupTask ==
  [][ (res'.cmd = "assignTask" /\ res'.target \in AllTaskIds) =>
        IF taskGroupId(res'.target) = "undefined"
        THEN /\ res'.status = "onlyGroupTasksCanBeAssigned"
             /\ assignedUsers' = assignedUsers
             /\ chat' = chat
        ELSE ( /\ Assigned \in UserIds
               /\ res'.user \in GroupMembers
               /\ CanEdit(res'.user, Assigned) )
             => /\ res'.status = "ok"
                /\ Assigned \in assignedUsers'[res'.target]
    ]_vars

C11_Witness ==
  /\ res.cmd = "assignTask"
  /\ res.target = "p0"
  /\ res.user = "L"
  /\ res.data = {"A"}
  /\ res.status = "onlyGroupTasksCanBeAssigned"
  /\ assignedUsers["c2"] = {"A"}
  /\ Len(chat) = 1

\* C12: UnassignTask on an existing task whose group.id is absent fails with
\* 'only group tasks can be assigned' for every actor, the leader included;
\* no link is removed and no task, user or group is changed.
C12_UnassignNeedsGroupTask ==
  [][ ( /\ res'.cmd = "unassignTask"
        /\ res'.target \in AllTaskIds
        /\ taskGroupId(res'.target) = "undefined" )
      => /\ res'.status = "onlyGroupTasksCanBeAssigned"
         /\ assignedUsers' = assignedUsers
         /\ tasks' = tasks
         /\ notifications' = notifications
         /\ tasksOrder' = tasksOrder
         /\ chat' = chat ]_vars

C12_Witness ==
  /\ res.cmd = "unassignTask"
  /\ res.target = "p0"
  /\ res.user = group.leader
  /\ res.data = {"A"}
  /\ res.status = "onlyGroupTasksCanBeAssigned"
  /\ "A" \in assignedUsers["c2"]

\* a MoveGroupTask step on a task that resolves
Moved == res'.cmd = "groupMoveTask" /\ res'.target \in AllTaskIds

IsCompletedTodo(t) == taskType(t) = "todo" /\ taskCompleted(t)

Bucket(t) == IF taskType(t) = "habit" THEN "habits" ELSE "todos"

\* the positions at which the list holds t
IndexesOf(list, t) == {i \in 1..Len(list) : list[i] = t}

\* C14: after a successful MoveGroupTask of t to position -1, t is the last
\* of its bucket; to a position i with 0 <= i < len(order), t is at index i;
\* in both cases t occurs once and the other elements keep their relative
\* order, and the list returned is the bucket persisted.
C14_MovePlaces ==
  [][ (Moved /\ res'.status = "ok") =>
        LET t == res'.target
            to == res'.data.position
            old == tasksOrder[Bucket(t)]
            new == tasksOrder'[Bucket(t)]
        IN /\ res'.data.order = new
           /\ (to = -1 \/ (0 <= to /\ to < Len(old))) =>
                /\ Cardinality(IndexesOf(new, t)) = 1
                /\ SelectSeq(new, LAMBDA x : x # t)
                     = SelectSeq(old, LAMBDA x : x # t)
                /\ to = -1 => new[Len(new)] = t
                /\ to # -1 => new[to + 1] = t
    ]_vars

C14_Witness ==
  /\ res.cmd = "groupMoveTask"
  /\ res.status = "ok"
  /\ res.target = "c0"
  /\ res.data.position = 2
  /\ res.data.order = <<"c1", "c2", "c0", "c3">>
  /\ tasksOrder.todos = <<"c1", "c2", "c0", "c3">>

\* C15: after any sequence of MoveGroupTask commands every tasksOrder[type]
\* is a permutation of the ids of the group's canonical tasks of that type.
C15_OrderIsPermutation ==
  \A key \in DOMAIN tasksOrder :
    /\ {tasksOrder[key][i] : i \in 1..Len(tasksOrder[key])}
         = {c \in CanonicalIds : Bucket(c) = key}
    /\ \A i, j \in 1..Len(tasksOrder[key]) :
         tasksOrder[key][i] = tasksOrder[key][j] => i = j

\* a step of a command whose assigned user id resolves to no user: for
\* AssignTask and UnassignTask the id is in the response; ApproveTask and
\* RequestNeedsWork then find no linked copy or go on with a null user
UnresolvedAssignee ==
  \/ /\ res'.cmd \in {"assignTask", "unassignTask"}
     /\ Assigned \notin UserIds
  \/ /\ res'.cmd \in {"approveTask", "taskNeedsWork"}
     /\ res'.target = NULL \/ res'.status = "TypeError"

\* C16: a command whose assigned user id resolves to no user fails with
\* NotFound and applies nothing: no task, no notification list, no chat
\* message and no link changes.
C16_UnknownUserNotFound ==
  [][ UnresolvedAssignee =>
        /\ res'.status \in {"taskNotFound", "groupNotFound", "userNotFound"}
        /\ tasks' = tasks
        /\ notifications' = notifications
        /\ chat' = chat
        /\ assignedUsers' = assignedUsers ]_vars

\* the list holds a notification of that type about task t
Holds(list, type, t) ==
  \E i \in 1..Len(list) : list[i].type = type /\ list[i].task = t

\* C17: a successful RequestNeedsWork stores requested = false and no
\* requestedDate and leaves approved (false), dateApproved and approvingUser
\* as they were; a RequestNeedsWork on the copy while it is not requested
\* again fails, and an ApproveTask by the leader or a manager on the copy
\* requested again succeeds (unless a save is rejected) and approves it.
C17_NeedsWorkClearsRequest ==
  [][ /\ Succeeded("taskNeedsWork") =>
           /\ ~Approval(res'.target).approved
           /\ tasks'[res'.target].group.approval =
                [Approval(res'.target) EXCEPT !.requested = FALSE,
                                              !.requestedDate = NoDate]
      /\ (Called("taskNeedsWork") /\ ~Approval(res'.target).requested) =>
           /\ res'.status # "ok"
           /\ tasks' = tasks
      /\ ( /\ Called("approveTask")
           /\ IsLeaderOrManager(res'.user)
           /\ Approval(res'.target).requested
           /\ ~Approval(res'.target).approved ) =>
           /\ res'.status \in {"ok", "saveError"}
           /\ res'.status = "ok" =>
                tasks'[res'.target].group.approval.approved
    ]_vars

\* the copy t1 was requested, sent back, requested again and approved
C17_Witness ==
  /\ res.cmd = "approveTask"
  /\ res.status = "ok"
  /\ res.target = "t1"
  /\ Approval("t1").approved
  /\ Approval("t1").requested
  /\ Approval("t1").requestedDate = 3
  /\ now = 4
  /\ Holds(notifications[tasks["t1"].userId], "GROUP_TASK_NEEDS_WORK", "t1")

\* the linked copies of the group that wait for an approval in the stores
\* given
Waiting(store, g) ==
  {t \in TaskIds : /\ store[t].group.id = g
                   /\ store[t].group.approval.requested
                   /\ ~store[t].group.approval.approved}

\* C18: ListPendingApprovals by the leader or a manager returns exactly the
\* linked copies of the group that are requested and not approved; a copy is
\* none of them once an ApproveTask or RequestNeedsWork on it has succeeded,
\* and an approved copy is never one of them again.
C18_ListsWaiting ==
  [][ /\ ( /\ res'.cmd = "getGroupApprovals"
           /\ res'.target \in GroupIds
           /\ IsLeaderOrManager(res'.user) ) =>
           /\ res'.status = "ok"
           /\ res'.data = Waiting(tasks, res'.target)
      /\ (Succeeded("approveTask") \/ Succeeded("taskNeedsWork")) =>
           res'.target \notin Waiting(tasks', group._id)
      /\ \A t \in TaskIds :
           Approval(t).approved => t \notin Waiting(tasks', group._id)
    ]_vars

C18_Witness ==
  /\ res.cmd = "getGroupApprovals"
  /\ res.status = "ok"
  /\ res.user = "M"
  /\ res.data = {"t0"}
  /\ Approval("t1").approved
  /\ Approval("t1").requested
  /\ now = 4

\* C19: when exactly one save of an ApproveTask or RequestNeedsWork is
\* rejected and it is the save of a manager's list (that manager, who is not
\* the assignee, keeps its pending approval of the task), the caller gets the
\* failure while the task is saved (approved, or its request cleared), the
\* assignee has the call's notifications and every other manager has lost
\* its pending approval: nothing is rolled back.
C19_SavesAreIndependent ==
  [][ \A m \in LeaderAndManagers :
        ( /\ Called("approveTask") \/ Called("taskNeedsWork")
          /\ faults' = faults - 1
          /\ m # tasks[res'.target].userId
          /\ HoldsPending(notifications[m], res'.target)
          /\ notifications'[m] = notifications[m] )
        => LET t == res'.target
               assignee == tasks[t].userId
           IN /\ res'.status = "saveError"
              /\ IF res'.cmd = "approveTask"
                 THEN tasks'[t].group.approval.approved
                 ELSE ~tasks'[t].group.approval.requested
              /\ notifications'[assignee] =
                   (IF assignee \in LeaderAndManagers
                    THEN WithoutFirstPending(notifications[assignee], t)
                    ELSE notifications[assignee]) \o OwnNotifications
              /\ \A o \in LeaderAndManagers \ {m, assignee} :
                   notifications'[o]
                     = WithoutFirstPending(notifications[o], t)
    ]_vars

\* t1 is approved, the caller got the failure, and the manager M still holds
\* the pending approval of t1 that the leader has lost
C19_Witness ==
  /\ res.cmd = "approveTask"
  /\ res.status = "saveError"
  /\ res.target = "t1"
  /\ tasks["t1"].userId = "A"
  /\ Approval("t1").approved
  /\ HoldsPending(notifications["M"], "t1")
  /\ ~HoldsPending(notifications["L"], "t1")
  /\ Holds(notifications["A"], "SCORED_TASK", "t1")

\* the resolutions of a request of t that its assignee was notified of
Resolutions(t) ==
  LET list == notifications[tasks[t].userId]
  IN {i \in 1..Len(list) :
        /\ list[i].type \in {"SCORED_TASK", "GROUP_TASK_NEEDS_WORK"}
        /\ list[i].task = t}

\* C20: the one approval request of a linked copy is resolved at most once,
\* however the ApproveTask and RequestNeedsWork handlers on it interleave: its
\* assignee is notified of one resolution at most, and the copy is never
\* stored approved with its request cleared.
C20_ResolvedOnce ==
  \A t \in TaskIds :
    /\ Cardinality(Resolutions(t)) <= 1
    /\ Approval(t).approved => Approval(t).requested

====
